---- MODULE Spec2Model ----
(***************************************************************************)
(* Chalet Manager: the dashboard page (date-range presets, range changes,  *)
(* "All Time" reset, fetchDashboardData and its aggregation) over the two  *)
(* tables income and expenses.                                             *)
(*                                                                         *)
(* Calendar days are numbers yyyymmdd, so that the order of the numbers is *)
(* the order of the ISO strings 'YYYY-MM-DD' the code compares, and        *)
(* date \div 100 is the 'YYYY-MM' prefix date.slice(0, 7).                 *)
(* Amounts are whole numbers (exact in a JS number).                       *)
(***************************************************************************)
EXTENDS Integers, Sequences, FiniteSets, TLC

(***************************************************************************)
(* Calendar arithmetic of the JS Date object.                              *)
(***************************************************************************)
MkDate(y, m, d) == y * 10000 + m * 100 + d

YearOf(date) == date \div 10000

MonthOf(date) == (date \div 100) % 100

DayOf(date) == date % 100

MonthKey(date) == date \div 100

IsLeap(y) == (y % 4 = 0 /\ y % 100 # 0) \/ y % 400 = 0

DaysInMonth(y, m) ==
  IF m = 2 THEN (IF IsLeap(y) THEN 29 ELSE 28)
  ELSE IF m \in {4, 6, 9, 11} THEN 30 ELSE 31

\* Date fields (year, 0-based month index, day of month) to a calendar day,
\* the way the Date setters normalise: a month index outside 0..11 carries
\* into the year, a day past the end of the month carries into the next
\* month, day 0 is the last day of the month before.
NormDate(y, m0, d) ==
  LET yy == y + (m0 \div 12)
      mm == (m0 % 12) + 1
      dim == DaysInMonth(yy, mm)
  IN  IF d > dim
        THEN IF mm = 12 THEN MkDate(yy + 1, 1, d - dim)
                        ELSE MkDate(yy, mm + 1, d - dim)
      ELSE IF d < 1
        THEN IF mm = 1 THEN MkDate(yy - 1, 12, 31 + d)
                       ELSE MkDate(yy, mm - 1, DaysInMonth(yy, mm - 1) + d)
      ELSE MkDate(yy, mm, d)

AddDays(date, k) == NormDate(YearOf(date), MonthOf(date) - 1, DayOf(date) + k)

\* A Date object: loc is its calendar day in the local time zone (what
\* getMonth, setMonth and setDate read and write), shift is the UTC calendar
\* day minus the local one at the object's wall-clock time (-1, 0 or 1).
\* The setters keep the wall-clock time, so they keep shift.
DateObj(loc, shift) == [loc |-> loc, shift |-> shift]

getMonth(dt) == MonthOf(dt.loc) - 1

setMonth(dt, m0) == [dt EXCEPT !.loc = NormDate(YearOf(dt.loc), m0, DayOf(dt.loc))]

setDate(dt, d) == [dt EXCEPT !.loc = NormDate(YearOf(dt.loc), MonthOf(dt.loc) - 1, d)]

\* toISOString().split('T')[0]  (also .slice(0, 10)): the UTC calendar day.
toISODate(dt) == AddDays(dt.loc, dt.shift)

\* new Date('YYYY-MM-DD'): midnight UTC of that day. West of Greenwich
\* (tz = -1) that instant is still the day before in local time.
ParseShift(zone) == IF zone = -1 THEN 1 ELSE 0

parseDate(str, zone) == DateObj(AddDays(str, 0 - ParseShift(zone)), ParseShift(zone))

(***************************************************************************)
(* getDateRangePreset.                                                     *)
(***************************************************************************)
Presets == {"thisMonth", "lastMonth", "last3Months", "thisYear"}

\* The Date the switch leaves in startDate, for `now` = new Date().
PresetStart(preset, now) ==
  CASE preset = "thisMonth"   -> setDate(now, 1)
    [] preset = "lastMonth"   -> setDate(setMonth(now, getMonth(now) - 1), 1)
    [] preset = "last3Months" -> setMonth(now, getMonth(now) - 3)
    [] preset = "thisYear"    -> setDate(setMonth(now, 0), 1)

getDateRangePreset(preset, now) ==
  [startDate |-> toISODate(PresetStart(preset, now)),
   endDate   |-> toISODate(now)]

\* useState initial value of dateRange: "last month" to today.
InitialDateRange(now) ==
  [startDate |-> toISODate(setMonth(now, getMonth(now) - 1)),
   endDate   |-> toISODate(now)]

(***************************************************************************)
(* The tables and the two kinds of query the dashboard issues.             *)
(* A row is [id, date, amount]; a table is a set of rows.                  *)
(***************************************************************************)
\* Row r comes before row q in a scan ordered by date descending; rows of
\* one date come in an order the store chooses (tieAsc: by id upwards).
Before(r, q, tieAsc) ==
  \/ r.date > q.date
  \/ r.date = q.date /\ (IF tieAsc THEN r.id < q.id ELSE r.id > q.id)

RECURSIVE InsertRow(_, _, _)
InsertRow(sorted, r, tieAsc) ==
  IF sorted = <<>> THEN <<r>>
  ELSE IF Before(r, Head(sorted), tieAsc) THEN <<r>> \o sorted
       ELSE <<Head(sorted)>> \o InsertRow(Tail(sorted), r, tieAsc)

RECURSIVE OrderDesc(_, _)
OrderDesc(S, tieAsc) ==
  IF S = {} THEN <<>>
  ELSE LET r == CHOOSE x \in S : TRUE
       IN  InsertRow(OrderDesc(S \ {r}, tieAsc), r, tieAsc)

\* RangeQuery with .lt in place of .lte: the end date itself is left out.
RangeQueryOpenEnd(table, range, tieAsc) ==
  OrderDesc({r \in table : r.date >= range.startDate /\ r.date < range.endDate},
            tieAsc)

\* .select('*').gte('date', startDate).lte('date', endDate)
\*   .order('date', { ascending: false })
RangeQuery(table, range, tieAsc) ==
  OrderDesc({r \in table : r.date >= range.startDate /\ r.date <= range.endDate},
            tieAsc)

\* .select('date').order('date', { ascending: true }).limit(1): the dates of
\* at most one row, the earliest.
OldestQuery(table) ==
  IF table = {} THEN <<>>
  ELSE <<(CHOOSE r \in table : \A q \in table : r.date <= q.date).date>>

(***************************************************************************)
(* The aggregation of fetchDashboardData.                                  *)
(***************************************************************************)
RecentLimit == 10

\* data.reduce((sum, item) => sum + item.amount, 0)
RECURSIVE SumAmount(_)
SumAmount(data) ==
  IF data = <<>> THEN 0
  ELSE SumAmount(SubSeq(data, 1, Len(data) - 1)) + data[Len(data)].amount

Tag(data, type) ==
  [i \in 1..Len(data) |->
     [id |-> data[i].id, date |-> data[i].date, type |-> type,
      amount |-> data[i].amount]]

\* Array.prototype.sort with (a, b) => b.date - a.date: stable, so x goes
\* behind every element that does not sort after it.
RECURSIVE InsertDesc(_, _)
InsertDesc(sorted, x) ==
  IF sorted = <<>> THEN <<x>>
  ELSE IF Head(sorted).date >= x.date
         THEN <<Head(sorted)>> \o InsertDesc(Tail(sorted), x)
       ELSE <<x>> \o sorted

RECURSIVE SortDesc(_)
SortDesc(txs) ==
  IF txs = <<>> THEN <<>>
  ELSE InsertDesc(SortDesc(SubSeq(txs, 1, Len(txs) - 1)), txs[Len(txs)])

Slice(s, n) == SubSeq(s, 1, IF Len(s) < n THEN Len(s) ELSE n)

\* RecentTransactions without the .slice(0, 10).
RecentTransactionsUnsliced(incomeData, expenseData) ==
  SortDesc(Tag(incomeData, "INCOME") \o Tag(expenseData, "EXPENSE"))

\* The last ten of the sorted list: .slice(-10).
RecentTransactionsOldest(incomeData, expenseData) ==
  LET sorted == SortDesc(Tag(incomeData, "INCOME") \o Tag(expenseData, "EXPENSE"))
  IN  IF Len(sorted) <= RecentLimit THEN sorted
      ELSE SubSeq(sorted, Len(sorted) - RecentLimit + 1, Len(sorted))

RecentTransactions(incomeData, expenseData) ==
  Slice(SortDesc(Tag(incomeData, "INCOME") \o Tag(expenseData, "EXPENSE")),
        RecentLimit)

\* monthlyDataMap: a Map, kept as its entries in insertion order.
MapHas(map, key) == \E i \in 1..Len(map) : map[i].month = key

MapGet(map, key) == map[CHOOSE i \in 1..Len(map) : map[i].month = key]

MapSet(map, key, inc, exp) ==
  IF MapHas(map, key)
    THEN [i \in 1..Len(map) |->
            IF map[i].month = key
              THEN [month |-> key, income |-> inc, expenses |-> exp]
            ELSE map[i]]
  ELSE Append(map, [month |-> key, income |-> inc, expenses |-> exp])

\* while (currentDate <= endDate) { set(monthKey, zeros); setMonth(+1) }
RECURSIVE SeedLoop(_, _, _)
SeedLoop(currentDate, endDate, map) ==
  IF currentDate.loc <= endDate.loc
    THEN SeedLoop(setMonth(currentDate, getMonth(currentDate) + 1), endDate,
                  MapSet(map, MonthKey(toISODate(currentDate)), 0, 0))
  ELSE map

\* No bucket is seeded.
SeedMonthsNone(range, zone) == <<>>

SeedMonths(range, zone) ==
  SeedLoop(parseDate(range.startDate, zone), parseDate(range.endDate, zone), <<>>)

\* monthlyDataMap.get(monthKey) || { income: 0, expenses: 0 }
GetOrZero(map, key) ==
  IF MapHas(map, key) THEN MapGet(map, key)
  ELSE [month |-> key, income |-> 0, expenses |-> 0]

\* AddIncome that skips a row whose month has no bucket yet.
AddIncomeSeededOnly(map, row) ==
  LET key == MonthKey(row.date)
  IN  IF MapHas(map, key)
        THEN MapSet(map, key, MapGet(map, key).income + row.amount,
                    MapGet(map, key).expenses)
      ELSE map

AddIncome(map, row) ==
  LET key == MonthKey(row.date)
      monthData == GetOrZero(map, key)
  IN  MapSet(map, key, monthData.income + row.amount, monthData.expenses)

\* AddExpense without the ...monthData spread: the bucket's income is lost.
AddExpenseNoSpread(map, row) ==
  LET key == MonthKey(row.date)
      monthData == GetOrZero(map, key)
  IN  MapSet(map, key, 0, monthData.expenses + row.amount)

\* AddExpense that skips a row whose month has no bucket yet.
AddExpenseSeededOnly(map, row) ==
  LET key == MonthKey(row.date)
  IN  IF MapHas(map, key)
        THEN MapSet(map, key, MapGet(map, key).income,
                    MapGet(map, key).expenses + row.amount)
      ELSE map

AddExpense(map, row) ==
  LET key == MonthKey(row.date)
      monthData == GetOrZero(map, key)
  IN  MapSet(map, key, monthData.income, monthData.expenses + row.amount)

\* incomeData.forEach(...)
RECURSIVE AggregateIncome(_, _)
AggregateIncome(map, data) ==
  IF data = <<>> THEN map
  ELSE AggregateIncome(AddIncome(map, Head(data)), Tail(data))

RECURSIVE AggregateExpenses(_, _)
AggregateExpenses(map, data) ==
  IF data = <<>> THEN map
  ELSE AggregateExpenses(AddExpense(map, Head(data)), Tail(data))

\* The entries of the Map in insertion order, not sorted.
SortByMonthInsertionOrder(map) == map

\* .sort((a, b) => a.month.localeCompare(b.month))
RECURSIVE InsertAsc(_, _)
InsertAsc(sorted, x) ==
  IF sorted = <<>> THEN <<x>>
  ELSE IF Head(sorted).month <= x.month
         THEN <<Head(sorted)>> \o InsertAsc(Tail(sorted), x)
       ELSE <<x>> \o sorted

RECURSIVE SortByMonth(_)
SortByMonth(map) ==
  IF map = <<>> THEN <<>>
  ELSE InsertAsc(SortByMonth(SubSeq(map, 1, Len(map) - 1)), map[Len(map)])

MonthlyData(range, zone, incomeData, expenseData) ==
  SortByMonth(
    AggregateExpenses(AggregateIncome(SeedMonths(range, zone), incomeData),
                      expenseData))

\* NetProfit with the operands the wrong way round.
NetProfitSwapped(totalIncome, totalExpenses) == totalExpenses - totalIncome

NetProfit(totalIncome, totalExpenses) == totalIncome - totalExpenses

\* The value handed to setSummaryData.
Aggregate(range, zone, incomeData, expenseData) ==
  LET totalIncome == SumAmount(incomeData)
      totalExpenses == SumAmount(expenseData)
  IN  [totalIncome        |-> totalIncome,
       totalExpenses      |-> totalExpenses,
       netProfit          |-> NetProfit(totalIncome, totalExpenses),
       recentTransactions |-> RecentTransactions(incomeData, expenseData),
       monthlyData        |-> MonthlyData(range, zone, incomeData, expenseData)]

EmptySummary ==
  [totalIncome |-> 0, totalExpenses |-> 0, netProfit |-> 0,
   recentTransactions |-> <<>>, monthlyData |-> <<>>]

(***************************************************************************)
(* State.                                                                  *)
(***************************************************************************)
VARIABLES
  clock,        \* new Date(): the present, a Date object (fixed in a run)
  tz,           \* the browser's zone: -1 west of UTC, 0 UTC, 1 east of UTC
  income,       \* table income
  expenses,     \* table expenses
  mounted,      \* the mount effect of the open page has run
  summaryData,  \* useState summaryData
  isLoading,    \* useState isLoading
  dateRange,    \* useState dateRange
  fetches,      \* runs of fetchDashboardData awaiting a query, oldest first
  resets,       \* runs of handleReset awaiting a query, oldest first
  alerts,       \* number of alert() dialogs shown
  nEvents,      \* number of user interactions with the range controls
  lastFetch,    \* history: outcome, range and results of the run of
                \* fetchDashboardData that finished last
  presetOut,    \* the last value returned by getDateRangePreset
  page,         \* the page open in the browser: "dashboard", "income",
                \* "expenses", or "none" while a request is being routed
  entries,      \* useState incomeEntries / expenseEntries of the ledger page
  formData,     \* useState formData of the ledger page
  listLoading,  \* useState isLoading of the ledger page
  isGenerating, \* useState isGenerating of the ledger page
  inserts,      \* inserts of the ledger page in flight
  request,      \* the request being routed: pathname and session
  response,     \* the answer to the request
  hops          \* redirects followed in this navigation

ledgerVars == <<page, entries, formData, listLoading, isGenerating, inserts>>

mwVars == <<request, response, hops>>

vars == <<clock, tz, income, expenses, mounted, summaryData, isLoading,
          dateRange, fetches, resets, alerts, nEvents, lastFetch, presetOut,
          ledgerVars, mwVars>>

dashVars == <<mounted, summaryData, isLoading, dateRange, fetches, resets,
              alerts, nEvents, lastFetch>>

Today == toISODate(clock)

NoFetch == [status |-> "none", range |-> [startDate |-> 0, endDate |-> 0],
            incomeData |-> <<>>, expenseData |-> <<>>, stale |-> FALSE]

NoPreset == [preset |-> "none", startDate |-> 0, endDate |-> 0]

\* useState of a ledger page: no entries, the empty form with the page's
\* default category, loading, not generating.  The empty date is 0.
DefaultCategory(p) ==
  CASE p = "income" -> "RENTAL"
    [] p = "expenses" -> "MAINTENANCE"
    [] OTHER -> ""

EmptyForm(p) ==
  [date |-> 0, amount |-> "", description |-> "", category |-> DefaultCategory(p)]

LedgerConstructed(p) ==
  /\ page = p
  /\ entries = <<>>
  /\ formData = EmptyForm(p)
  /\ listLoading = TRUE
  /\ isGenerating = FALSE
  /\ inserts = <<>>

NoRequest == [pathname |-> <<>>, session |-> FALSE]

NoResponse == [kind |-> "none", to |-> <<>>]

NoTraffic ==
  /\ request = NoRequest
  /\ response = NoResponse
  /\ hops = 0

RemoveAt(s, i) == SubSeq(s, 1, i - 1) \o SubSeq(s, i + 1, Len(s))

(***************************************************************************)
(* Bounds and inputs.                                                      *)
(***************************************************************************)
\* User interactions with the range controls in one page session over the
\* large tables; sessions over the small tables get one interaction more.
MaxEvents == 1

\* Rows of the income table in the largest scenario.
MaxRows == 6

Zones == {[tz |-> 0, shift |-> 0], [tz |-> -1, shift |-> 0],
          [tz |-> -1, shift |-> 1], [tz |-> 1, shift |-> 0],
          [tz |-> 1, shift |-> -1]}

\* Dates typed into the two date inputs.
InputDates == {20240115, 20240210}

IncomeRow(k, date) == [id |-> k, date |-> date, amount |-> 100 * k]

ExpenseRow(k, date) == [id |-> 100 + k, date |-> date, amount |-> 10 * k]

\* Dates of the rows of the large tables: several rows a day, over the
\* months before the present.
BulkDate(k) ==
  CASE k % 4 = 0 -> 20240120
    [] k % 4 = 1 -> 20240205
    [] k % 4 = 2 -> 20240205
    [] k % 4 = 3 -> 20240308

BulkIncome == {IncomeRow(k, BulkDate(k)) : k \in 1..MaxRows}

BulkExpenses == {ExpenseRow(k, BulkDate(k + 1)) : k \in 1..(MaxRows - 1)}

\* The present and the contents of the tables when the page is opened.
Scenarios ==
  { [clock |-> DateObj(20240310, 0), tz |-> 0,
     income |-> BulkIncome, expenses |-> BulkExpenses],
    [clock |-> DateObj(20240310, 0), tz |-> 0,
     income |-> {}, expenses |-> {}],
    [clock |-> DateObj(20240331, 0), tz |-> 0,
     income |-> {IncomeRow(1, 20240402)}, expenses |-> {}],
    [clock |-> DateObj(20240331, 1), tz |-> -1,
     income |-> {}, expenses |-> {ExpenseRow(1, 20240405)}],
    [clock |-> DateObj(20240301, -1), tz |-> 1,
     income |-> {IncomeRow(1, 20231231), IncomeRow(2, 20240229)},
     expenses |-> {ExpenseRow(1, 20240131), ExpenseRow(2, 20240402)}],
    [clock |-> DateObj(20240310, 0), tz |-> 0,
     income |-> {IncomeRow(1, 20240131), IncomeRow(2, 20240305)},
     expenses |-> {ExpenseRow(1, 20240215)}] }

(***************************************************************************)
(* The dashboard page.                                                     *)
(***************************************************************************)
Init ==
  /\ \E sc \in Scenarios :
       /\ clock = sc.clock
       /\ tz = sc.tz
       /\ income = sc.income
       /\ expenses = sc.expenses
  /\ mounted = FALSE
  /\ summaryData = EmptySummary
  /\ isLoading = TRUE
  /\ dateRange = InitialDateRange(clock)
  /\ fetches = <<>>
  /\ resets = <<>>
  /\ alerts = 0
  /\ nEvents = 0
  /\ lastFetch = NoFetch
  /\ presetOut = NoPreset
  /\ LedgerConstructed("dashboard")
  /\ NoTraffic

\* fetchDashboardData up to its first await: the closure holds the
\* dateRange of the render that created it.  stale records that a run
\* started later has already called setSummaryData; nothing reads it.
StartFetch(range) ==
  Append(fetches, [range |-> range, pc |-> "income", incomeData |-> <<>>,
                   stale |-> FALSE])

\* The runs in flight once run i has called setSummaryData: the runs before
\* it in fetches were started earlier and are not cancelled.
Superseding(i) ==
  [j \in 1..(Len(fetches) - 1) |->
     IF j < i THEN [fetches[j] EXCEPT !.stale = TRUE] ELSE fetches[j + 1]]

\* useEffect(() => { fetchDashboardData(); }, [fetchDashboardData]) on mount.
Mount ==
  /\ page = "dashboard"
  /\ ~mounted
  /\ mounted' = TRUE
  /\ fetches' = StartFetch(dateRange)
  /\ UNCHANGED <<clock, tz, income, expenses, summaryData, isLoading,
                 dateRange, resets, alerts, nEvents, lastFetch, presetOut,
                 ledgerVars, mwVars>>

\* The income query of run i resolves and its half of the summary is shown
\* at once.
IncomeResolvePartial(i, ok, tieAsc) ==
  /\ i \in 1..Len(fetches)
  /\ fetches[i].pc = "income"
  /\ IF ok
       THEN LET incomeData == RangeQuery(income, fetches[i].range, tieAsc)
            IN  /\ fetches' = [fetches EXCEPT ![i].pc = "expenses",
                                              ![i].incomeData = incomeData]
                /\ summaryData' = [summaryData EXCEPT
                                     !.totalIncome = SumAmount(incomeData)]
                /\ UNCHANGED <<isLoading, lastFetch>>
       ELSE /\ fetches' = RemoveAt(fetches, i)
            /\ isLoading' = FALSE
            /\ summaryData' = summaryData
            /\ lastFetch' = [status |-> "incomeError", range |-> fetches[i].range,
                             incomeData |-> <<>>, expenseData |-> <<>>,
                             stale |-> fetches[i].stale]
  /\ UNCHANGED <<clock, tz, income, expenses, mounted, dateRange,
                 resets, alerts, nEvents, presetOut, ledgerVars, mwVars>>

\* The income query of run i resolves; a failed run is started again.
IncomeResolveRetrying(i, ok, tieAsc) ==
  /\ i \in 1..Len(fetches)
  /\ fetches[i].pc = "income"
  /\ IF ok
       THEN /\ fetches' = [fetches EXCEPT
                             ![i].pc = "expenses",
                             ![i].incomeData = RangeQuery(income, fetches[i].range, tieAsc)]
            /\ UNCHANGED <<isLoading, lastFetch>>
       ELSE /\ fetches' = Append(RemoveAt(fetches, i),
                                 [range |-> fetches[i].range, pc |-> "income",
                                  incomeData |-> <<>>, stale |-> FALSE])
            /\ isLoading' = FALSE
            /\ lastFetch' = [status |-> "incomeError", range |-> fetches[i].range,
                             incomeData |-> <<>>, expenseData |-> <<>>,
                             stale |-> fetches[i].stale]
  /\ UNCHANGED <<clock, tz, income, expenses, mounted, summaryData, dateRange,
                 resets, alerts, nEvents, presetOut, ledgerVars, mwVars>>

\* The income query of run i resolves; the loading flag is cleared on the
\* success path only.
IncomeResolveNoFinally(i, ok, tieAsc) ==
  /\ i \in 1..Len(fetches)
  /\ fetches[i].pc = "income"
  /\ IF ok
       THEN /\ fetches' = [fetches EXCEPT
                             ![i].pc = "expenses",
                             ![i].incomeData = RangeQuery(income, fetches[i].range, tieAsc)]
            /\ UNCHANGED <<isLoading, lastFetch>>
       ELSE /\ fetches' = RemoveAt(fetches, i)
            /\ isLoading' = isLoading
            /\ lastFetch' = [status |-> "incomeError", range |-> fetches[i].range,
                             incomeData |-> <<>>, expenseData |-> <<>>,
                             stale |-> fetches[i].stale]
  /\ UNCHANGED <<clock, tz, income, expenses, mounted, summaryData, dateRange,
                 resets, alerts, nEvents, presetOut, ledgerVars, mwVars>>

\* The income query of run i resolves.
IncomeResolve(i, ok, tieAsc) ==
  /\ i \in 1..Len(fetches)
  /\ fetches[i].pc = "income"
  /\ IF ok
       THEN /\ fetches' = [fetches EXCEPT
                             ![i].pc = "expenses",
                             ![i].incomeData = RangeQuery(income, fetches[i].range, tieAsc)]
            /\ UNCHANGED <<isLoading, lastFetch>>
       ELSE \* throw incomeError; catch: console.error; finally
            /\ fetches' = RemoveAt(fetches, i)
            /\ isLoading' = FALSE
            /\ lastFetch' = [status |-> "incomeError", range |-> fetches[i].range,
                             incomeData |-> <<>>, expenseData |-> <<>>,
                             stale |-> fetches[i].stale]
  /\ UNCHANGED <<clock, tz, income, expenses, mounted, summaryData, dateRange,
                 resets, alerts, nEvents, presetOut, ledgerVars, mwVars>>

\* The expense query of run i resolves; when it fails the summary is built
\* from the income rows alone.
ExpenseResolvePartial(i, ok, tieAsc) ==
  /\ i \in 1..Len(fetches)
  /\ fetches[i].pc = "expenses"
  /\ isLoading' = FALSE
  /\ IF ok
       THEN LET expenseData == RangeQuery(expenses, fetches[i].range, tieAsc)
            IN  /\ summaryData' = Aggregate(fetches[i].range, tz,
                                            fetches[i].incomeData, expenseData)
                /\ fetches' = Superseding(i)
                /\ lastFetch' = [status |-> "ok", range |-> fetches[i].range,
                                 incomeData |-> fetches[i].incomeData,
                                 expenseData |-> expenseData,
                                 stale |-> fetches[i].stale]
       ELSE /\ summaryData' = Aggregate(fetches[i].range, tz,
                                        fetches[i].incomeData, <<>>)
            /\ fetches' = RemoveAt(fetches, i)
            /\ lastFetch' = [status |-> "expenseError", range |-> fetches[i].range,
                             incomeData |-> fetches[i].incomeData,
                             expenseData |-> <<>>,
                             stale |-> fetches[i].stale]
  /\ UNCHANGED <<clock, tz, income, expenses, mounted, dateRange, resets,
                 alerts, nEvents, presetOut, ledgerVars, mwVars>>

\* The expense query of run i resolves; the result of a run whose range is
\* no longer the current dateRange is dropped.
ExpenseResolveLatestOnly(i, ok, tieAsc) ==
  /\ i \in 1..Len(fetches)
  /\ fetches[i].pc = "expenses"
  /\ isLoading' = FALSE
  /\ IF ok
       THEN LET expenseData == RangeQuery(expenses, fetches[i].range, tieAsc)
            IN  /\ summaryData' = IF fetches[i].range = dateRange
                                    THEN Aggregate(fetches[i].range, tz,
                                                   fetches[i].incomeData, expenseData)
                                  ELSE summaryData
                /\ fetches' = Superseding(i)
                /\ lastFetch' = [status |-> "ok", range |-> fetches[i].range,
                                 incomeData |-> fetches[i].incomeData,
                                 expenseData |-> expenseData,
                                 stale |-> fetches[i].stale]
       ELSE /\ summaryData' = summaryData
            /\ fetches' = RemoveAt(fetches, i)
            /\ lastFetch' = [status |-> "expenseError", range |-> fetches[i].range,
                             incomeData |-> fetches[i].incomeData,
                             expenseData |-> <<>>,
                             stale |-> fetches[i].stale]
  /\ UNCHANGED <<clock, tz, income, expenses, mounted, dateRange, resets,
                 alerts, nEvents, presetOut, ledgerVars, mwVars>>

\* The expense query of run i resolves; on success the rest of the try
\* block runs to setSummaryData, then finally.
ExpenseResolve(i, ok, tieAsc) ==
  /\ i \in 1..Len(fetches)
  /\ fetches[i].pc = "expenses"
  /\ isLoading' = FALSE
  /\ IF ok
       THEN LET expenseData == RangeQuery(expenses, fetches[i].range, tieAsc)
            IN  /\ summaryData' = Aggregate(fetches[i].range, tz,
                                            fetches[i].incomeData, expenseData)
                /\ fetches' = Superseding(i)
                /\ lastFetch' = [status |-> "ok", range |-> fetches[i].range,
                                 incomeData |-> fetches[i].incomeData,
                                 expenseData |-> expenseData,
                                 stale |-> fetches[i].stale]
       ELSE \* throw expenseError; catch: console.error; finally
            /\ summaryData' = summaryData
            /\ fetches' = RemoveAt(fetches, i)
            /\ lastFetch' = [status |-> "expenseError", range |-> fetches[i].range,
                             incomeData |-> fetches[i].incomeData,
                             expenseData |-> <<>>,
                             stale |-> fetches[i].stale]
  /\ UNCHANGED <<clock, tz, income, expenses, mounted, dateRange, resets,
                 alerts, nEvents, presetOut, ledgerVars, mwVars>>

\* The range is accepted when the end date is not before the start date.
RangeOk(newRange) == ~(newRange.endDate < newRange.startDate)

\* handleDateRangeChange that swaps an out-of-order range instead of
\* rejecting it.
handleDateRangeChangeSwapping(newRange) ==
  LET fixed == IF RangeOk(newRange) THEN newRange
               ELSE [startDate |-> newRange.endDate, endDate |-> newRange.startDate]
  IN  /\ dateRange' = fixed
      /\ fetches' = StartFetch(fixed)
      /\ alerts' = alerts

\* handleDateRangeChange(newRange); an accepted range is a new dateRange
\* object, so the effect starts a run of fetchDashboardData.
handleDateRangeChange(newRange) ==
  IF RangeOk(newRange)
    THEN /\ dateRange' = newRange
         /\ fetches' = StartFetch(newRange)
         /\ alerts' = alerts
    ELSE /\ alerts' = alerts + 1
         /\ UNCHANGED <<dateRange, fetches>>

EventLimit ==
  IF Cardinality(income) + Cardinality(expenses) > RecentLimit
    THEN MaxEvents
  ELSE MaxEvents + 1

\* The controls are rendered once isLoading is false.
CanInteract == mounted /\ ~isLoading /\ nEvents < EventLimit

ClickPreset(preset) ==
  /\ CanInteract
  /\ nEvents' = nEvents + 1
  /\ handleDateRangeChange(getDateRangePreset(preset, clock))
  /\ UNCHANGED <<clock, tz, income, expenses, mounted, summaryData, isLoading,
                 resets, lastFetch, presetOut, ledgerVars, mwVars>>

EditStartDate(value) ==
  /\ CanInteract
  /\ nEvents' = nEvents + 1
  /\ handleDateRangeChange([dateRange EXCEPT !.startDate = value])
  /\ UNCHANGED <<clock, tz, income, expenses, mounted, summaryData, isLoading,
                 resets, lastFetch, presetOut, ledgerVars, mwVars>>

EditEndDate(value) ==
  /\ CanInteract
  /\ nEvents' = nEvents + 1
  /\ handleDateRangeChange([dateRange EXCEPT !.endDate = value])
  /\ UNCHANGED <<clock, tz, income, expenses, mounted, summaryData, isLoading,
                 resets, lastFetch, presetOut, ledgerVars, mwVars>>

\* handleReset up to its first await.
ClickReset ==
  /\ CanInteract
  /\ nEvents' = nEvents + 1
  /\ resets' = Append(resets, [pc |-> "income", oldestIncome |-> <<>>])
  /\ UNCHANGED <<clock, tz, income, expenses, mounted, summaryData, isLoading,
                 dateRange, fetches, alerts, lastFetch, presetOut,
                 ledgerVars, mwVars>>

ResetIncomeResolve(i, ok) ==
  /\ i \in 1..Len(resets)
  /\ resets[i].pc = "income"
  /\ resets' = IF ok
                 THEN [resets EXCEPT ![i].pc = "expenses",
                                     ![i].oldestIncome = OldestQuery(income)]
               ELSE RemoveAt(resets, i)
  /\ UNCHANGED <<clock, tz, income, expenses, mounted, summaryData, isLoading,
                 dateRange, fetches, alerts, nEvents, lastFetch, presetOut,
                 ledgerVars, mwVars>>

\* "Find the earliest date between income and expenses", default today.
ResetStartDate(oldestIncome, oldestExpense, today) ==
  LET fromIncome == IF oldestIncome # <<>> THEN oldestIncome[1] ELSE today
  IN  IF oldestExpense # <<>> /\ oldestExpense[1] < fromIncome
        THEN oldestExpense[1]
      ELSE fromIncome

ResetExpenseResolve(i, ok) ==
  /\ i \in 1..Len(resets)
  /\ resets[i].pc = "expenses"
  /\ resets' = RemoveAt(resets, i)
  /\ IF ok
       THEN LET newRange ==
                  [startDate |-> ResetStartDate(resets[i].oldestIncome,
                                                OldestQuery(expenses), Today),
                   endDate |-> Today]
            IN  /\ dateRange' = newRange
                /\ fetches' = StartFetch(newRange)
       ELSE UNCHANGED <<dateRange, fetches>>
  /\ UNCHANGED <<clock, tz, income, expenses, mounted, summaryData, isLoading,
                 alerts, nEvents, lastFetch, presetOut, ledgerVars, mwVars>>

Next ==
  \/ Mount
  \/ \E i \in 1..Len(fetches), ok \in BOOLEAN, tieAsc \in BOOLEAN :
       IncomeResolve(i, ok, tieAsc)
  \/ \E i \in 1..Len(fetches), ok \in BOOLEAN, tieAsc \in BOOLEAN :
       ExpenseResolve(i, ok, tieAsc)
  \/ \E preset \in Presets : ClickPreset(preset)
  \/ \E value \in InputDates : EditStartDate(value)
  \/ \E value \in InputDates : EditEndDate(value)
  \/ ClickReset
  \/ \E i \in 1..Len(resets), ok \in BOOLEAN : ResetIncomeResolve(i, ok)
  \/ \E i \in 1..Len(resets), ok \in BOOLEAN : ResetExpenseResolve(i, ok)

Spec == Init /\ [][Next]_vars

(***************************************************************************)
(* getDateRangePreset on its own, for every day of two years (one of them  *)
(* a leap year) in every zone.                                             *)
(***************************************************************************)
PresetYears == {2023, 2024}

PresetDays ==
  {date \in {MkDate(y, m, d) : y \in PresetYears, m \in 1..12, d \in 1..31} :
     DayOf(date) <= DaysInMonth(YearOf(date), MonthOf(date))}

UTC == [tz |-> 0, shift |-> 0]

InitPreset ==
  /\ \/ \E day \in PresetDays :
            /\ clock = DateObj(day, UTC.shift)
            /\ tz = UTC.tz
     \/ \E day \in PresetDays, z \in Zones \ {UTC} :
            /\ clock = DateObj(day, z.shift)
            /\ tz = z.tz
  /\ income = {}
  /\ expenses = {}
  /\ mounted = FALSE
  /\ summaryData = EmptySummary
  /\ isLoading = TRUE
  /\ dateRange = InitialDateRange(clock)
  /\ fetches = <<>>
  /\ resets = <<>>
  /\ alerts = 0
  /\ nEvents = 0
  /\ lastFetch = NoFetch
  /\ presetOut = NoPreset
  /\ LedgerConstructed("dashboard")
  /\ NoTraffic

CallPreset(preset) ==
  /\ presetOut' = [preset |-> preset,
                   startDate |-> getDateRangePreset(preset, clock).startDate,
                   endDate |-> getDateRangePreset(preset, clock).endDate]
  /\ UNCHANGED <<clock, tz, income, expenses, dashVars, ledgerVars, mwVars>>

NextPreset == \E preset \in Presets : CallPreset(preset)

SpecPreset == InitPreset /\ [][NextPreset]_vars

(***************************************************************************)
(* The income page and the expenses page.                                  *)
(***************************************************************************)
LedgerPages == {"income", "expenses"}

\* supabase.from('income') / supabase.from('expenses')
Table(p) == IF p = "income" THEN income ELSE expenses

\* .select('*').order('date', { ascending: false })
ListQuery(table, tieAsc) == OrderDesc(table, tieAsc)

\* parseFloat on the strings typed into the amount input.
parseFloat(str) ==
  CASE str = "250.0" -> 250

\* Sample categories with a value that is none of the known categories.
SampleCategoriesUnknown(p) ==
  IF p = "income" THEN <<"BOOKING", "SERVICES", "OTHER">>
  ELSE <<"REPAIRS", "UTILITIES", "SUPPLIES", "CLEANING", "INSURANCE", "OTHER">>

\* generateSampleIncome / generateSampleExpenses: the categories drawn from.
SampleCategories(p) ==
  IF p = "income" THEN <<"RENTAL", "SERVICES", "OTHER">>
  ELSE <<"MAINTENANCE", "UTILITIES", "SUPPLIES", "CLEANING", "INSURANCE", "OTHER">>

SampleDescriptions(p) ==
  IF p = "income" THEN <<"Weekend Rental", "Week-long Stay">>
  ELSE <<"Monthly Utilities", "Cleaning Service">>

\* handleGenerateSampleData asks for 5 rows.
SampleCount == 5

\* Days randomDate can return on 2024-03-10: within the last three months.
SampleDates == <<20231211, 20240120, 20240120, 20240229, 20240310>>

\* One outcome of generateSampleIncome(5) / generateSampleExpenses(5): the
\* draws are fixed by seed.
generateSample(p, seed) ==
  [j \in 1..SampleCount |->
     [date        |-> SampleDates[((j * seed) % Len(SampleDates)) + 1],
      amount      |-> 500 + 10 * j + seed,
      description |-> SampleDescriptions(p)[((j + seed) % 2) + 1],
      category    |-> SampleCategories(p)[((j + seed) % Len(SampleCategories(p))) + 1]]]

Seeds == {1, 2}

\* The database gives each inserted row a fresh id and returns the rows
\* (.insert(...).select()).
MaxId(table) ==
  IF table = {} THEN 0
  ELSE CHOOSE n \in {r.id : r \in table} : \A r \in table : r.id <= n

Inserted(table, payload) ==
  [j \in 1..Len(payload) |->
     [id          |-> MaxId(table) + j,
      date        |-> payload[j].date,
      amount      |-> payload[j].amount,
      description |-> payload[j].description,
      category    |-> payload[j].category]]

RowsOf(data) == {data[j] : j \in 1..Len(data)}

LedgerRow(id, date, amount, description, category) ==
  [id |-> id, date |-> date, amount |-> amount, description |-> description,
   category |-> category]

\* The tables when a ledger page is opened.
LedgerIncome ==
  { LedgerRow(1, 20240210, 900, "Weekend Rental", "RENTAL"),
    LedgerRow(2, 20240301, 1200, "Corporate Retreat", "SERVICE") }

LedgerExpenses ==
  { LedgerRow(101, 20240205, 300, "Plumbing Fix", "MAINTENANCE"),
    LedgerRow(102, 20240301, 80, "Monthly Utilities", "UTILITIES") }

\* The options of the category select.
CategoryOptions(p) ==
  IF p = "income" THEN {"RENTAL", "SERVICE", "OTHER"}
  ELSE {"MAINTENANCE", "UTILITIES", "SUPPLIES", "OTHER"}

\* What the user types or picks in the form: field and value.
FormInputs(p) ==
  { <<"date", 20240115>>,
    <<"amount", "250.0">>,
    <<"description", "Family Gathering">> }
  \cup {<<"category", c>> : c \in CategoryOptions(p)}

\* The pages open in a session: the dashboard over small tables, or one of
\* the ledger pages.
InitPages ==
  /\ \/ /\ \E sc \in Scenarios :
              /\ sc.income # {} /\ sc.expenses # {}
              /\ Cardinality(sc.income) + Cardinality(sc.expenses) <= RecentLimit
              /\ clock = sc.clock
              /\ tz = sc.tz
              /\ income = sc.income
              /\ expenses = sc.expenses
        /\ LedgerConstructed("dashboard")
     \/ /\ clock = DateObj(20240310, 0)
        /\ tz = 0
        /\ income = LedgerIncome
        /\ expenses = LedgerExpenses
        /\ \E p \in LedgerPages : LedgerConstructed(p)
  /\ mounted = FALSE
  /\ summaryData = EmptySummary
  /\ isLoading = TRUE
  /\ dateRange = InitialDateRange(clock)
  /\ fetches = <<>>
  /\ resets = <<>>
  /\ alerts = 0
  /\ nEvents = 0
  /\ lastFetch = NoFetch
  /\ presetOut = NoPreset
  /\ NoTraffic

dashState == <<summaryData, isLoading, dateRange, fetches, resets, alerts,
               lastFetch, presetOut>>

\* useEffect(() => { fetchIncomeEntries(); }, [fetchIncomeEntries]) on mount.
LedgerMount ==
  /\ page \in LedgerPages
  /\ ~mounted
  /\ mounted' = TRUE
  /\ UNCHANGED <<clock, tz, income, expenses, dashState, nEvents, ledgerVars,
                 mwVars>>

\* The query of fetchIncomeEntries / fetchExpenseEntries resolves.
FetchEntriesResolve(ok, tieAsc) ==
  /\ page \in LedgerPages
  /\ mounted
  /\ listLoading
  /\ entries' = IF ok THEN ListQuery(Table(page), tieAsc) ELSE entries
  /\ listLoading' = FALSE
  /\ UNCHANGED <<clock, tz, income, expenses, mounted, dashState, nEvents,
                 page, formData, isGenerating, inserts, mwVars>>

\* The form and the buttons are rendered once isLoading is false.
LedgerShown == page \in LedgerPages /\ mounted /\ ~listLoading

\* onChange of one of the form's inputs.
ChangeField(field, value) ==
  /\ LedgerShown
  /\ formData' = [formData EXCEPT ![field] = value]
  /\ formData' # formData
  /\ UNCHANGED <<clock, tz, income, expenses, mounted, dashState, nEvents,
                 page, entries, listLoading, isGenerating, inserts, mwVars>>

\* Every input of the form is required.
FormValid ==
  formData.date # 0 /\ formData.amount # "" /\ formData.description # ""

StartInsert(kind, payload) ==
  Append(inserts, [kind |-> kind, payload |-> payload, closure |-> entries])

\* handleSubmit up to its await: the insert carries the form's values, and
\* the handler keeps the entries of the render that created it.
Submit ==
  /\ LedgerShown
  /\ FormValid
  /\ nEvents < MaxEvents + 1
  /\ nEvents' = nEvents + 1
  /\ inserts' = StartInsert("submit",
                             <<[date        |-> formData.date,
                                amount      |-> parseFloat(formData.amount),
                                description |-> formData.description,
                                category    |-> formData.category]>>)
  /\ UNCHANGED <<clock, tz, income, expenses, mounted, dashState, page,
                 entries, formData, listLoading, isGenerating, mwVars>>

\* handleGenerateSampleData up to its await.
ClickGenerate(seed) ==
  /\ LedgerShown
  /\ nEvents < MaxEvents + 1
  /\ nEvents' = nEvents + 1
  /\ IF isGenerating
       THEN UNCHANGED <<isGenerating, inserts>>
     ELSE /\ isGenerating' = TRUE
          /\ inserts' = StartInsert("generate", generateSample(page, seed))
  /\ UNCHANGED <<clock, tz, income, expenses, mounted, dashState, page,
                 entries, formData, listLoading, mwVars>>

\* The insert i resolves, and the table holds the inserted rows in place of
\* the rows it had.
InsertResolveReplacing(i, ok) ==
  /\ i \in 1..Len(inserts)
  /\ LET ins == inserts[i]
         data == Inserted(Table(page), ins.payload)
     IN  /\ inserts' = RemoveAt(inserts, i)
         /\ isGenerating' = IF ins.kind = "generate" THEN FALSE ELSE isGenerating
         /\ IF ok
              THEN /\ income' = IF page = "income" THEN RowsOf(data) ELSE income
                   /\ expenses' = IF page = "expenses" THEN RowsOf(data) ELSE expenses
                   /\ entries' = data \o ins.closure
                   /\ formData' = IF ins.kind = "submit" THEN EmptyForm(page)
                                  ELSE formData
            ELSE UNCHANGED <<income, expenses, entries, formData>>
  /\ UNCHANGED <<clock, tz, mounted, dashState, nEvents, page, listLoading,
                 mwVars>>

\* The insert i resolves; the returned rows go to the end of the list, and
\* the form is cleared whatever the outcome.
InsertResolveAppending(i, ok) ==
  /\ i \in 1..Len(inserts)
  /\ LET ins == inserts[i]
         data == Inserted(Table(page), ins.payload)
     IN  /\ inserts' = RemoveAt(inserts, i)
         /\ isGenerating' = IF ins.kind = "generate" THEN FALSE ELSE isGenerating
         /\ formData' = IF ins.kind = "submit" THEN EmptyForm(page) ELSE formData
         /\ IF ok
              THEN /\ income' = IF page = "income" THEN income \cup RowsOf(data)
                                ELSE income
                   /\ expenses' = IF page = "expenses" THEN expenses \cup RowsOf(data)
                                  ELSE expenses
                   /\ entries' = ins.closure \o data
            ELSE UNCHANGED <<income, expenses, entries>>
  /\ UNCHANGED <<clock, tz, mounted, dashState, nEvents, page, listLoading,
                 mwVars>>

\* The insert i resolves; isGenerating is cleared on success only.
InsertResolveNoFinally(i, ok) ==
  /\ i \in 1..Len(inserts)
  /\ LET ins == inserts[i]
         data == Inserted(Table(page), ins.payload)
     IN  /\ inserts' = RemoveAt(inserts, i)
         /\ IF ok
              THEN /\ income' = IF page = "income" THEN income \cup RowsOf(data)
                                ELSE income
                   /\ expenses' = IF page = "expenses" THEN expenses \cup RowsOf(data)
                                  ELSE expenses
                   /\ entries' = data \o ins.closure
                   /\ formData' = IF ins.kind = "submit" THEN EmptyForm(page)
                                  ELSE formData
                   /\ isGenerating' = IF ins.kind = "generate" THEN FALSE
                                      ELSE isGenerating
            ELSE UNCHANGED <<income, expenses, entries, formData, isGenerating>>
  /\ UNCHANGED <<clock, tz, mounted, dashState, nEvents, page, listLoading,
                 mwVars>>

\* The insert i resolves: the rest of handleSubmit or of
\* handleGenerateSampleData.
InsertResolve(i, ok) ==
  /\ i \in 1..Len(inserts)
  /\ LET ins == inserts[i]
         data == Inserted(Table(page), ins.payload)
     IN  /\ inserts' = RemoveAt(inserts, i)
         /\ isGenerating' = IF ins.kind = "generate" THEN FALSE ELSE isGenerating
         /\ IF ok
              THEN /\ income' = IF page = "income" THEN income \cup RowsOf(data)
                                ELSE income
                   /\ expenses' = IF page = "expenses" THEN expenses \cup RowsOf(data)
                                  ELSE expenses
                   /\ entries' = data \o ins.closure
                   /\ formData' = IF ins.kind = "submit" THEN EmptyForm(page)
                                  ELSE formData
            ELSE UNCHANGED <<income, expenses, entries, formData>>
  /\ UNCHANGED <<clock, tz, mounted, dashState, nEvents, page, listLoading,
                 mwVars>>

NextLedger ==
  \/ LedgerMount
  \/ \E ok \in BOOLEAN, tieAsc \in BOOLEAN : FetchEntriesResolve(ok, tieAsc)
  \/ \E input \in FormInputs(page) : ChangeField(input[1], input[2])
  \/ Submit
  \/ \E seed \in Seeds : ClickGenerate(seed)
  \/ \E i \in 1..Len(inserts), ok \in BOOLEAN : InsertResolve(i, ok)

NextPages == Next \/ NextLedger

SpecPages == InitPages /\ [][NextPages]_vars

(***************************************************************************)
(* The middleware.  A pathname is the sequence of its characters.          *)
(***************************************************************************)
\* String.prototype.startsWith
startsWith(pathname, route) ==
  Len(pathname) >= Len(route) /\ SubSeq(pathname, 1, Len(route)) = route

\* A pathname matches "...suffix$".
endsWith(pathname, suffix) ==
  /\ Len(pathname) >= Len(suffix)
  /\ SubSeq(pathname, Len(pathname) - Len(suffix) + 1, Len(pathname)) = suffix

DashboardPath == <<"/", "d", "a", "s", "h", "b", "o", "a", "r", "d">>

LoginPath == <<"/", "l", "o", "g", "i", "n">>

protectedRoutes ==
  { DashboardPath,
    <<"/", "i", "n", "c", "o", "m", "e">>,  \* /income
    <<"/", "e", "x", "p", "e", "n", "s", "e", "s">> }  \* /expenses

authRoutes ==
  { LoginPath,
    <<"/", "s", "i", "g", "n", "u", "p">> }  \* /signup

\* protectedRoutes.some(route => pathname === route)
isProtectedRouteExact(pathname) == pathname \in protectedRoutes

isProtectedRoute(pathname) ==
  \E route \in protectedRoutes : startsWith(pathname, route)

isAuthRoute(pathname) ==
  \E route \in authRoutes : startsWith(pathname, route)

ImageSuffixes ==
  { <<".", "s", "v", "g">>, <<".", "p", "n", "g">>, <<".", "j", "p", "g">>,
    <<".", "j", "p", "e", "g">>, <<".", "g", "i", "f">>, <<".", "w", "e", "b", "p">> }

\* config.matcher: '/' followed by anything that neither starts with
\* _next/static, _next/image or favicon<any character>ico nor ends in
\* .svg, .png, .jpg, .jpeg, .gif or .webp.
matcher(pathname) ==
  /\ pathname # <<>>
  /\ Head(pathname) = "/"
  /\ LET rest == Tail(pathname)
     IN  /\ ~startsWith(rest, <<"_", "n", "e", "x", "t", "/", "s", "t", "a", "t", "i", "c">>)
         /\ ~startsWith(rest, <<"_", "n", "e", "x", "t", "/", "i", "m", "a", "g", "e">>)
         /\ ~(/\ startsWith(rest, <<"f", "a", "v", "i", "c", "o", "n">>)
              /\ Len(rest) >= 11
              /\ SubSeq(rest, 9, 11) = <<"i", "c", "o">>)
         /\ \A suffix \in ImageSuffixes : ~endsWith(rest, suffix)

Redirect(to) == [kind |-> "redirect", to |-> to]

\* return res
PassThrough == [kind |-> "next", to |-> <<>>]

\* The request is not handed to the middleware.
Unmatched == [kind |-> "unmatched", to |-> <<>>]

\* middleware that protects the three routes themselves and nothing below
\* them.
middlewareExactRoutes(req) ==
  IF isProtectedRouteExact(req.pathname) /\ ~req.session THEN Redirect(LoginPath)
  ELSE IF isAuthRoute(req.pathname) /\ req.session THEN Redirect(DashboardPath)
  ELSE PassThrough

\* middleware that also asks for a session on the auth routes.
middlewareLoginProtected(req) ==
  IF (isProtectedRoute(req.pathname) \/ isAuthRoute(req.pathname)) /\ ~req.session
    THEN Redirect(LoginPath)
  ELSE IF isAuthRoute(req.pathname) /\ req.session THEN Redirect(DashboardPath)
  ELSE PassThrough

\* middleware without its second redirect.
middlewareProtectedOnly(req) ==
  IF isProtectedRoute(req.pathname) /\ ~req.session THEN Redirect(LoginPath)
  ELSE PassThrough

middleware(req) ==
  IF isProtectedRoute(req.pathname) /\ ~req.session THEN Redirect(LoginPath)
  ELSE IF isAuthRoute(req.pathname) /\ req.session THEN Redirect(DashboardPath)
  ELSE PassThrough

\* Redirects followed in one navigation.
MaxHops == 3

Prefixes ==
  { <<"/", "d", "a", "s", "h", "b", "o", "a", "r", "d">>,  \* /dashboard
    <<"/", "i", "n", "c", "o", "m", "e">>,  \* /income
    <<"/", "e", "x", "p", "e", "n", "s", "e", "s">>,  \* /expenses
    <<"/", "l", "o", "g", "i", "n">>,  \* /login
    <<"/", "s", "i", "g", "n", "u", "p">>,  \* /signup
    <<"/">>,  \* /
    <<"/", "a", "b", "o", "u", "t">>,  \* /about
    <<"/", "d", "a", "s", "h">>,  \* /dash
    <<"/", "_", "n", "e", "x", "t", "/", "s", "t", "a", "t", "i", "c">>,  \* /_next/static
    <<"/", "_", "n", "e", "x", "t", "/", "i", "m", "a", "g", "e">>,  \* /_next/image
    <<"/", "f", "a", "v", "i", "c", "o", "n", ".", "i", "c", "o">>,  \* /favicon.ico
    <<"/", "a", "p", "i", "/", "l", "o", "g", "i", "n">> }  \* /api/login

Suffixes ==
  { <<>>,  \* nothing
    <<"/">>,  \* /
    <<"s">>,  \* s
    <<"/", "n", "e", "w">>,  \* /new
    <<"/", "a", ".", "p", "n", "g">>,  \* /a.png
    <<"/", "a", ".", "p", "n", "g", "/", "b">>,  \* /a.png/b
    <<".", "s", "v", "g">>,  \* .svg
    <<"/", "b", ".", "j", "p", "e", "g">> }  \* /b.jpeg

Pathnames == {prefix \o suffix : prefix \in Prefixes, suffix \in Suffixes}

InitMiddleware ==
  /\ clock = DateObj(20240310, 0)
  /\ tz = 0
  /\ income = {}
  /\ expenses = {}
  /\ mounted = FALSE
  /\ summaryData = EmptySummary
  /\ isLoading = TRUE
  /\ dateRange = InitialDateRange(clock)
  /\ fetches = <<>>
  /\ resets = <<>>
  /\ alerts = 0
  /\ nEvents = 0
  /\ lastFetch = NoFetch
  /\ presetOut = NoPreset
  /\ LedgerConstructed("none")
  /\ \E pathname \in Pathnames, session \in BOOLEAN :
       request = [pathname |-> pathname, session |-> session]
  /\ response = NoResponse
  /\ hops = 0

\* The request is routed: through the middleware when config.matcher
\* matches its pathname, past it otherwise.
RouteRequest ==
  /\ response = NoResponse
  /\ response' = IF matcher(request.pathname) THEN middleware(request)
                 ELSE Unmatched
  /\ UNCHANGED <<clock, tz, income, expenses, dashVars, presetOut, ledgerVars,
                 request, hops>>

\* The browser follows a redirect with a request for its target; the
\* session is the same.
FollowRedirect ==
  /\ response.kind = "redirect"
  /\ hops < MaxHops
  /\ request' = [request EXCEPT !.pathname = response.to]
  /\ response' = NoResponse
  /\ hops' = hops + 1
  /\ UNCHANGED <<clock, tz, income, expenses, dashVars, presetOut, ledgerVars>>

NextMiddleware == RouteRequest \/ FollowRedirect

SpecMiddleware == InitMiddleware /\ [][NextMiddleware]_vars

(***************************************************************************)
(* What the properties below compare the page's state with.                *)
(***************************************************************************)
FetchOk == lastFetch.status = "ok"

\* The rows of a table dated within a range, both ends included.
InRange(table, range) ==
  {r \in table : range.startDate <= r.date /\ r.date <= range.endDate}

RECURSIVE SetSum(_)
SetSum(S) ==
  IF S = {} THEN 0
  ELSE LET r == CHOOSE x \in S : TRUE IN r.amount + SetSum(S \ {r})

FetchedIncome == InRange(income, lastFetch.range)

FetchedExpenses == InRange(expenses, lastFetch.range)

Min(a, b) == IF a < b THEN a ELSE b

MonthsOf(monthly) == {monthly[i].month : i \in 1..Len(monthly)}

\* Months counted from year 0, and back to a YYYYMM key.
MonthIndex(date) == YearOf(date) * 12 + MonthOf(date) - 1

KeyOfIndex(n) == (n \div 12) * 100 + (n % 12) + 1

MonthsSpanned(range) ==
  {KeyOfIndex(n) : n \in MonthIndex(range.startDate)..MonthIndex(range.endDate)}

(***************************************************************************)
(* Properties.                                                             *)
(***************************************************************************)

\* C1: after a successful run of fetchDashboardData for a range, totalIncome
\* is the sum of amount over the income rows of the table dated within the
\* range (ends included), and totalExpenses the same over the expense rows.
C1_TotalsAreRangeSums ==
  FetchOk =>
    /\ summaryData.totalIncome = SetSum(FetchedIncome)
    /\ summaryData.totalExpenses = SetSum(FetchedExpenses)

\* A successful run that took some rows and left others out, with a row
\* dated on the last day of the range.
C1_Witness ==
  /\ FetchOk
  /\ FetchedIncome # {} /\ FetchedIncome # income
  /\ FetchedExpenses # {} /\ FetchedExpenses # expenses
  /\ \E r \in FetchedIncome \cup FetchedExpenses : r.date = lastFetch.range.endDate

\* C2: in every state of the dashboard, netProfit = totalIncome -
\* totalExpenses.
C2_NetProfit ==
  summaryData.netProfit = summaryData.totalIncome - summaryData.totalExpenses

\* A failed run after a successful one that found income and expenses.
C2_Witness ==
  /\ lastFetch.status \in {"incomeError", "expenseError"}
  /\ summaryData.totalIncome > 0
  /\ summaryData.totalExpenses > 0
  /\ summaryData.totalIncome # summaryData.totalExpenses

\* C3: after a successful run, recentTransactions has min(10, fetched income
\* rows + fetched expense rows) entries and is sorted by date, latest first.
C3_RecentCappedAndSorted ==
  FetchOk =>
    /\ Len(summaryData.recentTransactions) =
         Min(RecentLimit, Cardinality(FetchedIncome) + Cardinality(FetchedExpenses))
    /\ \A i \in 1..(Len(summaryData.recentTransactions) - 1) :
         summaryData.recentTransactions[i].date >=
           summaryData.recentTransactions[i + 1].date

\* A successful run that fetched more than ten rows, of several dates.
C3_Witness ==
  /\ FetchOk
  /\ Cardinality(FetchedIncome) + Cardinality(FetchedExpenses) > RecentLimit
  /\ Len(summaryData.recentTransactions) = RecentLimit
  /\ summaryData.recentTransactions[1].date >
       summaryData.recentTransactions[RecentLimit].date

\* C4: for a range with startDate <= endDate, after a successful run
\* monthlyData has one entry for each calendar month from the month of
\* startDate through the month of endDate: endMonth - startMonth + 1 of
\* them, at least one, whatever the days of the month of the two dates.
C4_OneBucketPerMonth ==
  (FetchOk /\ lastFetch.range.startDate <= lastFetch.range.endDate) =>
    /\ Len(summaryData.monthlyData) =
         MonthIndex(lastFetch.range.endDate) - MonthIndex(lastFetch.range.startDate) + 1
    /\ MonthsOf(summaryData.monthlyData) = MonthsSpanned(lastFetch.range)
    /\ Len(summaryData.monthlyData) >= 1

\* The months seeded for the range of the run that finished last.
SeededMonths == MonthsOf(SeedMonths(lastFetch.range, tz))

FetchedMonths == {MonthKey(r.date) : r \in FetchedIncome \cup FetchedExpenses}

C6_MonthlySums ==
  FetchOk =>
    \A i \in 1..Len(summaryData.monthlyData) :
      LET e == summaryData.monthlyData[i]
      IN  /\ e.income = SetSum({r \in FetchedIncome : MonthKey(r.date) = e.month})
          /\ e.expenses = SetSum({r \in FetchedExpenses : MonthKey(r.date) = e.month})

\* A successful run with a month that has both income and expenses, more
\* than one row of each.
C6_Witness ==
  /\ FetchOk
  /\ \E i \in 1..Len(summaryData.monthlyData) :
       LET k == summaryData.monthlyData[i].month
       IN  /\ Cardinality({r \in FetchedIncome : MonthKey(r.date) = k}) > 1
           /\ Cardinality({r \in FetchedExpenses : MonthKey(r.date) = k}) > 1
  /\ Len(summaryData.monthlyData) > 1

\* C7: handleDateRangeChange called with an end date before the start date
\* leaves dateRange as it was (neither swapped nor clamped), starts no
\* fetch, and shows the alert.
C7_InvalidRangeRejected ==
  [][\A value \in InputDates :
       /\ (EditEndDate(value) /\ value < dateRange.startDate)
            => (dateRange' = dateRange /\ fetches' = fetches /\ alerts' = alerts + 1)
       /\ (EditStartDate(value) /\ dateRange.endDate < value)
            => (dateRange' = dateRange /\ fetches' = fetches /\ alerts' = alerts + 1)
    ]_vars

\* An edit has been rejected.
C7_Witness == alerts > 0 /\ nEvents > 0

\* C8: startDate <= endDate in the stored dateRange, in every state.
C8_RangeOrdered == dateRange.startDate <= dateRange.endDate

EarliestDate(table) == (CHOOSE r \in table : \A q \in table : r.date <= q.date).date

\* C9: when both queries of handleReset succeed, the new dateRange ends
\* today and starts at the earliest date over the rows of both tables, or
\* today if both are empty.
C9_ResetFromEarliest ==
  [][\A i \in 1..Len(resets) :
       ResetExpenseResolve(i, TRUE) =>
         dateRange' = [startDate |-> IF income \cup expenses = {} THEN Today
                                     ELSE EarliestDate(income \cup expenses),
                       endDate |-> Today]
    ]_vars

FirstOfMonthBefore(date) == KeyOfIndex(MonthIndex(date) - 1) * 100 + 1

\* C10: getDateRangePreset('lastMonth') returns startDate = the 1st of the
\* month before the current month and endDate = today, for every today.
C10_LastMonthStart ==
  presetOut.preset = "lastMonth" =>
    /\ presetOut.startDate = FirstOfMonthBefore(Today)
    /\ presetOut.endDate = Today

\* The day `months` calendar months before a day: the same day of the month,
\* or the last day of that month if it is shorter.
MonthsBefore(date, months) ==
  LET key == KeyOfIndex(MonthIndex(date) - months)
      dim == DaysInMonth(key \div 100, key % 100)
  IN  key * 100 + Min(DayOf(date), dim)

\* C11: getDateRangePreset('last3Months') returns endDate = today and
\* startDate = the date three calendar months before today, a day of the
\* calendar month three months before the current one.
C11_Last3MonthsStart ==
  presetOut.preset = "last3Months" =>
    /\ MonthKey(presetOut.startDate) = KeyOfIndex(MonthIndex(Today) - 3)
    /\ presetOut.startDate = MonthsBefore(Today, 3)
    /\ presetOut.endDate = Today

\* The ranges of 'thisMonth' and 'thisYear' when today is `day`.
ThisMonthRange(day) == [startDate |-> MonthKey(day) * 100 + 1, endDate |-> day]

ThisYearRange(day) == [startDate |-> MkDate(YearOf(day), 1, 1), endDate |-> day]

PresetRange == [startDate |-> presetOut.startDate, endDate |-> presetOut.endDate]

\* C12: getDateRangePreset('thisMonth') returns the 1st of the current
\* month, getDateRangePreset('thisYear') January 1 of the current year, each
\* with endDate = today; today is read as the user's local day or as the
\* UTC day, whichever fits.
C12_ThisMonthThisYear ==
  /\ presetOut.preset = "thisMonth" =>
       PresetRange \in {ThisMonthRange(clock.loc), ThisMonthRange(Today)}
  /\ presetOut.preset = "thisYear" =>
       PresetRange \in {ThisYearRange(clock.loc), ThisYearRange(Today)}

\* The summary the aggregation builds from the rows the last run fetched.
FetchedSummary ==
  Aggregate(lastFetch.range, tz, lastFetch.incomeData, lastFetch.expenseData)

\* A run of fetchDashboardData ends in this step.
FetchCompletes == Len(fetches') < Len(fetches)

\* C13: when the income query or the expense query of a run of
\* fetchDashboardData fails, the run leaves summaryData exactly as it was; a
\* step changes summaryData only when a run ends with both queries
\* successful, and then the summary is the aggregation of both results.
C13_FailedFetchKeepsSummary ==
  [][/\ (FetchCompletes /\ lastFetch'.status \in {"incomeError", "expenseError"})
          => summaryData' = summaryData
     /\ summaryData' # summaryData
          => /\ FetchCompletes
             /\ lastFetch'.status = "ok"
             /\ summaryData' = Aggregate(lastFetch'.range, tz, lastFetch'.incomeData,
                                         lastFetch'.expenseData)]_vars

\* The expense query failed after the income query of the same run had
\* returned rows, and the summary on screen is still the one of an earlier
\* successful run, with expenses in it.
C13_Witness ==
  /\ lastFetch.status = "expenseError"
  /\ lastFetch.incomeData # <<>>
  /\ summaryData.totalExpenses > 0
  /\ summaryData.totalIncome # SumAmount(lastFetch.incomeData)

\* C14: runs of fetchDashboardData overlap and none is cancelled: a run that
\* ends successfully after a run started later has already written its
\* summary still writes its own, so the summary shown is the one of the
\* superseded range.
C14_StaleRunOverwrites ==
  (FetchOk /\ lastFetch.stale) => summaryData = FetchedSummary

\* No run is in flight, and the summary on screen is that of a superseded
\* run for a range other than the current dateRange; it differs from the
\* summary of the current range.
C14_Witness ==
  /\ fetches = <<>>
  /\ FetchOk
  /\ lastFetch.stale
  /\ lastFetch.range # dateRange
  /\ summaryData = FetchedSummary
  /\ \A tieAsc \in BOOLEAN :
       summaryData # Aggregate(dateRange, tz, RangeQuery(income, dateRange, tieAsc),
                               RangeQuery(expenses, dateRange, tieAsc))

\* C15: summaryData changes only in the step in which a run that has both
\* its income rows and its expense rows ends, that run leaves the runs in
\* flight in the same step, and all five fields of the new summary are
\* computed from the income rows and the expense rows of that one run.
C15_SummarySetOnceFromBoth ==
  [][summaryData' # summaryData =>
       \E i \in 1..Len(fetches) :
         /\ fetches[i].pc = "expenses"
         /\ Len(fetches') = Len(fetches) - 1
         /\ lastFetch'.status = "ok"
         /\ lastFetch'.range = fetches[i].range
         /\ lastFetch'.incomeData = fetches[i].incomeData
         /\ \E tieAsc \in BOOLEAN :
              lastFetch'.expenseData = RangeQuery(expenses, fetches[i].range, tieAsc)
         /\ summaryData'.totalIncome = SumAmount(lastFetch'.incomeData)
         /\ summaryData'.totalExpenses = SumAmount(lastFetch'.expenseData)
         /\ summaryData'.netProfit =
              SumAmount(lastFetch'.incomeData) - SumAmount(lastFetch'.expenseData)
         /\ summaryData'.recentTransactions =
              RecentTransactions(lastFetch'.incomeData, lastFetch'.expenseData)
         /\ summaryData'.monthlyData =
              MonthlyData(lastFetch'.range, tz, lastFetch'.incomeData,
                          lastFetch'.expenseData)]_vars

\* A run has fetched income rows and waits for its expense rows while the
\* summary on screen is still that of an earlier run, with other totals.
C15_Witness ==
  /\ FetchOk
  /\ summaryData = FetchedSummary
  /\ \E i \in 1..Len(fetches) :
       /\ fetches[i].pc = "expenses"
       /\ fetches[i].incomeData # <<>>
       /\ SumAmount(fetches[i].incomeData) # summaryData.totalIncome

\* The runs in flight, without the record of supersession.
Runs(f) == [j \in 1..Len(f) |-> [range |-> f[j].range, pc |-> f[j].pc,
                                   incomeData |-> f[j].incomeData]]

\* A run of fetchDashboardData for the range is started in this step.
FetchStarts(range) ==
  Runs(fetches') = Append(Runs(fetches), [range |-> range, pc |-> "income",
                                          incomeData |-> <<>>])

\* C19: a run of fetchDashboardData is started only by the mount of the page
\* and by a step that sets dateRange (an accepted change through the range
\* controls, or the range computed by the reset), and each such step starts
\* exactly one run, for the new dateRange; every other step, a failed fetch
\* included, only advances or removes runs in flight.
C19_FetchOnlyOnMountOrRangeChange ==
  [][LET mounts == ~mounted /\ mounted'
         accepted == nEvents' = nEvents + 1 /\ alerts' = alerts /\ resets' = resets
         resetDone == Len(resets') < Len(resets) /\ Today = dateRange'.endDate
                        /\ Len(fetches') > Len(fetches)
     IN  IF mounts \/ accepted \/ resetDone
           THEN FetchStarts(dateRange')
         ELSE /\ dateRange' = dateRange
              /\ \/ fetches' = fetches
                 \/ \E i \in 1..Len(fetches) :
                      \/ Runs(fetches') = Runs(RemoveAt(fetches, i))
                      \/ /\ fetches[i].pc = "income"
                         /\ Runs(fetches') =
                              [Runs(fetches) EXCEPT
                                 ![i].pc = "expenses",
                                 ![i].incomeData = fetches'[i].incomeData]]_vars

\* A fetch has failed after the user changed the range, nothing is in
\* flight, and the page waits.
C19_Witness ==
  /\ lastFetch.status \in {"incomeError", "expenseError"}
  /\ lastFetch.range = dateRange
  /\ nEvents > 0
  /\ fetches = <<>>
  /\ resets = <<>>

\* C20: isLoading is true from construction until the first run of
\* fetchDashboardData ends, and false from then on, whether runs end in
\* success or in failure.
C20_LoadingClearedByFirstFetch ==
  isLoading <=> lastFetch.status = "none"

\* The first run failed at its income query and the page is out of the
\* loading state, showing the empty summary.
C20_Witness ==
  /\ ~isLoading
  /\ lastFetch.status = "incomeError"
  /\ nEvents = 0
  /\ fetches = <<>>
  /\ summaryData = EmptySummary

Answered == response # NoResponse

\* C16, as stated: every request without a session whose path starts with
\* /dashboard, /income or /expenses is answered with a redirect to /login.
C16_ProtectedRedirectsToLogin ==
  (Answered /\ isProtectedRoute(request.pathname) /\ ~request.session)
    => response = Redirect(LoginPath)

\* C16, amended: every request without a session that config.matcher hands
\* to the middleware and whose path starts with /dashboard, /income or
\* /expenses is answered with a redirect to /login and is never passed
\* through; a request whose path ends in an image suffix is not handed to
\* the middleware and gets no redirect.
C16_MatchedProtectedRedirectsToLogin ==
  (Answered /\ isProtectedRoute(request.pathname) /\ ~request.session)
    => IF matcher(request.pathname) THEN response = Redirect(LoginPath)
       ELSE response = Unmatched

\* A request without a session for a path below a protected route, typed by
\* the user, has been redirected to /login.
C16_Witness ==
  /\ hops = 0
  /\ ~request.session
  /\ isProtectedRoute(request.pathname)
  /\ request.pathname \notin protectedRoutes
  /\ response = Redirect(LoginPath)

\* C17, as stated: every request with a session whose path starts with
\* /login or /signup is answered with a redirect to /dashboard.
C17_AuthRedirectsToDashboard ==
  (Answered /\ isAuthRoute(request.pathname) /\ request.session)
    => response = Redirect(DashboardPath)

\* C17, amended: every request with a session that config.matcher hands to
\* the middleware and whose path starts with /login or /signup is answered
\* with a redirect to /dashboard; a request whose path ends in an image
\* suffix is not handed to the middleware and gets no redirect.
C17_MatchedAuthRedirectsToDashboard ==
  (Answered /\ isAuthRoute(request.pathname) /\ request.session)
    => IF matcher(request.pathname) THEN response = Redirect(DashboardPath)
       ELSE response = Unmatched

\* A request with a session for a path below /signup or /login, typed by the
\* user, has been redirected to /dashboard.
C17_Witness ==
  /\ hops = 0
  /\ request.session
  /\ isAuthRoute(request.pathname)
  /\ request.pathname \notin authRoutes
  /\ response = Redirect(DashboardPath)

\* C18: no step of the dashboard (mount, fetch, range change, reset) or of
\* the ledger pages (mount, fetch, form edit, submission, sample generation)
\* removes or alters a row of the income or the expenses table; a step
\* changes a table only by adding rows with ids that were not in it.
C18_TablesAppendOnly ==
  [][/\ income \subseteq income'
     /\ expenses \subseteq expenses'
     /\ \A r \in income' \ income : \A q \in income : q.id # r.id
     /\ \A r \in expenses' \ expenses : \A q \in expenses : q.id # r.id]_vars

\* A form submission and a sample generation have both added their rows to
\* a table that still holds the rows it had when the page was opened.
C18_Witness ==
  /\ page \in LedgerPages
  /\ inserts = <<>>
  /\ Cardinality(Table(page)) = 2 + 1 + SampleCount
  /\ LedgerIncome \subseteq income
  /\ LedgerExpenses \subseteq expenses

\* C21: after a successful run, the month keys of monthlyData are strictly
\* ascending from one entry to the next, so no month key appears twice.
C21_MonthlyAscending ==
  FetchOk =>
    \A i \in 1..(Len(summaryData.monthlyData) - 1) :
      summaryData.monthlyData[i].month < summaryData.monthlyData[i + 1].month

\* A successful run whose Map got the bucket of an earlier month after the
\* bucket of a later one: the entries in insertion order are not ascending.
C21_Witness ==
  /\ FetchOk
  /\ Len(summaryData.monthlyData) >= 2
  /\ LET map == AggregateExpenses(
                  AggregateIncome(SeedMonths(lastFetch.range, tz),
                                  lastFetch.incomeData),
                  lastFetch.expenseData)
     IN  \E i \in 1..(Len(map) - 1) : map[i].month > map[i + 1].month

\* C22: after a successful run for a range with startDate <= endDate in
\* which both queries returned no rows, totalIncome, totalExpenses and
\* netProfit are 0, recentTransactions is empty, and monthlyData has at
\* least one entry and only entries with income = 0 and expenses = 0.
C22_EmptyRangeSummary ==
  (/\ FetchOk
   /\ lastFetch.range.startDate <= lastFetch.range.endDate
   /\ lastFetch.incomeData = <<>>
   /\ lastFetch.expenseData = <<>>) =>
    /\ summaryData.totalIncome = 0
    /\ summaryData.totalExpenses = 0
    /\ summaryData.netProfit = 0
    /\ summaryData.recentTransactions = <<>>
    /\ Len(summaryData.monthlyData) >= 1
    /\ \A i \in 1..Len(summaryData.monthlyData) :
         /\ summaryData.monthlyData[i].income = 0
         /\ summaryData.monthlyData[i].expenses = 0

\* A successful run over a range of more than one month that found nothing,
\* although the tables have rows outside the range.
C22_Witness ==
  /\ FetchOk
  /\ lastFetch.range.startDate <= lastFetch.range.endDate
  /\ lastFetch.incomeData = <<>>
  /\ lastFetch.expenseData = <<>>
  /\ income # {}
  /\ expenses # {}
  /\ Len(summaryData.monthlyData) > 1

\* The fetched rows as transactions: income rows typed INCOME, expense rows
\* typed EXPENSE, with their id, date and amount.
FetchedTransactions ==
  {[id |-> r.id, date |-> r.date, type |-> "INCOME", amount |-> r.amount] :
     r \in FetchedIncome}
  \cup
  {[id |-> r.id, date |-> r.date, type |-> "EXPENSE", amount |-> r.amount] :
     r \in FetchedExpenses}

RecentSet ==
  {summaryData.recentTransactions[i] : i \in 1..Len(summaryData.recentTransactions)}

\* C24: after a successful run, every entry of recentTransactions is a
\* fetched row with its id, date and amount, typed INCOME exactly when it is
\* an income row and EXPENSE exactly when it is an expense row, no row
\* appears twice, and every fetched row left out is dated no later than
\* every entry.
C24_RecentAreLatest ==
  FetchOk =>
    /\ RecentSet \subseteq FetchedTransactions
    /\ Cardinality(RecentSet) = Len(summaryData.recentTransactions)
    /\ \A t \in FetchedTransactions \ RecentSet :
         \A e \in RecentSet : t.date <= e.date

\* A successful run that left rows out, one of them an expense, while
\* recentTransactions holds income and expenses.
C24_Witness ==
  /\ FetchOk
  /\ \E t \in FetchedTransactions \ RecentSet : t.type = "EXPENSE"
  /\ \E e \in RecentSet : e.type = "INCOME"
  /\ \E e \in RecentSet : e.type = "EXPENSE"

RECURSIVE SumIncome(_)
SumIncome(monthly) ==
  IF monthly = <<>> THEN 0 ELSE Head(monthly).income + SumIncome(Tail(monthly))

RECURSIVE SumExpenses(_)
SumExpenses(monthly) ==
  IF monthly = <<>> THEN 0 ELSE Head(monthly).expenses + SumExpenses(Tail(monthly))

\* C25: in the summary of a successful run, income summed over the entries
\* of monthlyData is totalIncome and expenses summed over them is
\* totalExpenses.
C25_MonthlyAddsUpToTotals ==
  FetchOk =>
    /\ SumIncome(summaryData.monthlyData) = summaryData.totalIncome
    /\ SumExpenses(summaryData.monthlyData) = summaryData.totalExpenses

\* A successful run with income and expenses in several months, one of the
\* expense rows in a month that was not seeded and has no income row.
C25_Witness ==
  /\ FetchOk
  /\ summaryData.totalIncome > 0
  /\ Len(summaryData.monthlyData) > 1
  /\ \E r \in FetchedExpenses :
       MonthKey(r.date) \notin
         SeededMonths \cup {MonthKey(q.date) : q \in FetchedIncome}

\* C26: with the session unchanged, a navigation is redirected at most
\* once: the request for the target of a redirect is passed through.  A
\* redirect is issued only for a protected path without a session, to
\* /login, and for a login or signup path with a session, to /dashboard.
C26_NoRedirectLoop ==
  /\ hops <= 1
  /\ (hops = 1 /\ Answered) => response = PassThrough
  /\ response.kind = "redirect" =>
       \/ /\ isProtectedRoute(request.pathname)
          /\ ~request.session
          /\ response.to = LoginPath
       \/ /\ isAuthRoute(request.pathname)
          /\ request.session
          /\ response.to = DashboardPath

\* A redirect to /login has been followed and the request for /login has
\* been passed through.
C26_Witness ==
  /\ hops = 1
  /\ ~request.session
  /\ request.pathname = LoginPath
  /\ response = PassThrough

IncomeCategories == {"RENTAL", "SERVICE", "SERVICES", "OTHER"}

ExpenseCategories ==
  {"MAINTENANCE", "UTILITIES", "SUPPLIES", "CLEANING", "INSURANCE", "OTHER"}

\* C23: every row the ledger pages have added to the income table, by form
\* submission or by sample generation, has its category in {RENTAL, SERVICE,
\* SERVICES, OTHER}, and every row they have added to the expenses table
\* has its category in {MAINTENANCE, UTILITIES, SUPPLIES, CLEANING,
\* INSURANCE, OTHER}.
C23_WrittenCategories ==
  page \in LedgerPages =>
    /\ \A r \in income \ LedgerIncome : r.category \in IncomeCategories
    /\ \A r \in expenses \ LedgerExpenses : r.category \in ExpenseCategories

\* The income table holds a row submitted through the form with category
\* SERVICE and a generated row with category SERVICES.
C23_Witness ==
  /\ page = "income"
  /\ \E r \in income \ LedgerIncome : r.category = "SERVICE"
  /\ \E r \in income \ LedgerIncome : r.category = "SERVICES"

\* The rows added to the page's table since the page was opened.
InsertedInSession ==
  Table(page) \ (IF page = "income" THEN LedgerIncome ELSE LedgerExpenses)

\* C27: on a ledger page with no insert in flight, the list shown contains
\* every row inserted during the page session, also when two inserts were
\* in flight at the same time.
C27_ListKeepsInsertedRows ==
  (page \in LedgerPages /\ inserts = <<>>) =>
    InsertedInSession \subseteq RowsOf(entries)

\* C28: the list shown on a ledger page is sorted by date, latest first, in
\* every state.
C28_ListSortedByDate ==
  page \in LedgerPages =>
    \A i \in 1..(Len(entries) - 1) : entries[i].date >= entries[i + 1].date

\* The insert of a form submission ends in this step.
SubmitEnds(i) ==
  /\ inserts[i].kind = "submit"
  /\ inserts' = RemoveAt(inserts, i)

TableAfter == IF page = "income" THEN income' ELSE expenses'

\* C29: when the insert of handleSubmit fails, the step leaves the list and
\* the form as they were.  When it succeeds, the row returned by the
\* database, with the values submitted, is the first entry of the list, the
\* form is back at its initial values (empty date, amount and description,
\* the page's default category), and, when no other insert has changed the
\* list since the submission, the rest of the list is the list as it was.
C29_SubmitOutcome ==
  [][\A i \in 1..Len(inserts) :
       SubmitEnds(i) =>
         IF TableAfter = Table(page)
           THEN entries' = entries /\ formData' = formData
         ELSE /\ entries' # <<>>
              /\ TableAfter = Table(page) \cup {Head(entries')}
              /\ Head(entries').date = inserts[i].payload[1].date
              /\ Head(entries').amount = inserts[i].payload[1].amount
              /\ Head(entries').description = inserts[i].payload[1].description
              /\ Head(entries').category = inserts[i].payload[1].category
              /\ formData' = [date |-> 0, amount |-> "", description |-> "",
                              category |-> IF page = "income" THEN "RENTAL"
                                           ELSE "MAINTENANCE"]
              /\ inserts[i].closure = entries => Tail(entries') = entries
    ]_vars

\* A submission has succeeded: its row heads the list, ahead of the rows of
\* the initial fetch, and the form is empty again.
C29_Witness ==
  /\ page \in LedgerPages
  /\ inserts = <<>>
  /\ Len(entries) = 3
  /\ Head(entries) \in InsertedInSession
  /\ Head(entries).description = "Family Gathering"
  /\ formData = EmptyForm(page)

GenerationsInFlight == {i \in 1..Len(inserts) : inserts[i].kind = "generate"}

\* C30: on a ledger page at most one sample-data insert is in flight, and
\* isGenerating is true exactly while one is: a click while it is true
\* starts nothing, and the end of the insert, in success or in failure,
\* sets it back to false, so that a generation can be started again.
C30_OneGenerationInFlight ==
  page \in LedgerPages =>
    Cardinality(GenerationsInFlight) = IF isGenerating THEN 1 ELSE 0

\* After two clicks on the button one generation is in flight and the
\* table has no new row: the first generation failed and the second was
\* started, or the second click came while the first was in flight.
C30_Witness ==
  /\ page \in LedgerPages
  /\ nEvents = 2
  /\ isGenerating
  /\ Len(inserts) = 1
  /\ inserts[1].kind = "generate"
  /\ InsertedInSession = {}

====
